---- MODULE Spec2Model ----
(***************************************************************************)
(* A model of tactility.py, the Tactility build tool: the per-platform     *)
(* build state machine (build_all, build_first, build_consecutively), the  *)
(* SDK cache with its safe archive extraction, the packager and the        *)
(* device client.  The file system is the program's state; the external    *)
(* build tool, the CDN and the device are the environment, whose answers   *)
(* are drawn from small sets.                                              *)
(***************************************************************************)
EXTENDS Integers, Sequences, FiniteSets, TLC

\* ------------------------------------------------------------------ bounds

\* Platform identifiers are 1..NumPlatforms.
NumPlatforms == 2
\* Exit codes of the external build tool are 0..MaxExit.
MaxExit == 1

\* An SDK archive holds at most MaxEntries entries.
MaxEntries == 2
\* SDK resolution is called at most MaxCalls times after the cache was cleared.
MaxCalls == 2

Platforms == 1..NumPlatforms
ExitCodes == 0..MaxExit

\* The platform lists an action is called with: the manifest's platforms in
\* some order, or one requested platform (get_manifest_target_platforms).
RECURSIVE SeqsOver(_, _)
SeqsOver(S, n) ==
    IF n = 0 THEN {<< >>}
    ELSE LET shorter == SeqsOver(S, n - 1)
         IN shorter \cup {Append(s, x) : s \in {t \in shorter : Len(t) = n - 1}, x \in S}

Range(s) == {s[i] : i \in 1..Len(s)}
Distinct(s) == Cardinality(Range(s)) = Len(s)
PlatformLists == {s \in SeqsOver(Platforms, NumPlatforms) : Len(s) >= 1 /\ Distinct(s)}

\* ------------------------------------------------------------- file names

\* A file name is the sequence of its dot-separated parts, so that a suffix
\* test is a test on the name and not on a label attached to it.
AppElfSuffix == <<".app", ".elf">>
hello_app_elf == <<"hello", ".app", ".elf">>
hello_elf == <<"hello", ".elf">>
old_app_elf == <<"old", ".app", ".elf">>
\* What the external tool may leave in a platform's build directory.
ToolFiles == {hello_app_elf, hello_elf}
FileNames == {hello_app_elf, hello_elf, old_app_elf}

endswith(name, suffix) ==
    /\ Len(name) >= Len(suffix)
    /\ SubSeq(name, Len(name) - Len(suffix) + 1, Len(name)) = suffix

removesuffix(name, suffix) ==
    IF endswith(name, suffix) THEN SubSeq(name, 1, Len(name) - Len(suffix)) ELSE name

\* Python's None, for a path.
None == << >>

\* The orders in which os.listdir may list a directory: the order is not
\* specified, and is the same for every listing of an unchanged directory.
ListOrders ==
    {s \in SeqsOver(FileNames, Cardinality(FileNames)) :
        Len(s) = Cardinality(FileNames) /\ Distinct(s) /\ s[Len(s)] = hello_elf}

VARIABLES
    listdir_order,  \* the order in which os.listdir lists file names
    build_dir,      \* [Platforms -> SUBSET FileNames]: build/cmake-build-{platform}
    pc,             \* where the build pass is: "idle", "loop", "tool", "returned"
    platforms,      \* the platform list of the pass
    skip_build,     \* the --skip-build flag of the pass
    idx,            \* position of build_all's loop in platforms
    command,        \* the external command that is running (pc = "tool")
    log,            \* what each platform's build step of this pass did
    ret,            \* build_all's return value: "pending", "True", "False"
    sdkconfig,      \* whose configuration file the working directory's sdkconfig is
    sdk_path        \* the environment's TACTILITY_SDK_PATH

buildVars == <<listdir_order, build_dir, pc, platforms, skip_build, idx, command, log, ret,
               sdkconfig, sdk_path>>

VARIABLES
    zip_members,    \* safe_extract_zip: zip_ref.infolist(), the entries' file names
    zip_pc,         \* "check" (the loop), "done" (extractall returned), "raised"
    zip_i,          \* position of the checking loop in zip_members
    zip_written     \* the files extraction has written

zipVars == <<zip_members, zip_pc, zip_i, zip_written>>

VARIABLES
    sdk_tree,       \* [Platforms -> set of paths]: what extraction wrote for a platform
    sdk_pc,         \* SDK resolution: "idle", "loop", "returned"
    sdk_platforms,  \* the platform list of the call
    sdk_idx,        \* position of sdk_download_all's loop
    sdk_ret,        \* its result: "pending", "True", "False", "raised"
    sdk_calls,      \* calls of sdk_download_all since the cache was cleared
    sdk_log         \* [Platforms -> what each resolution of the platform did
                    \*  since the cache was cleared]

sdkVars == <<sdk_tree, sdk_pc, sdk_platforms, sdk_idx, sdk_ret, sdk_calls, sdk_log>>

VARIABLES
    manifest_present, \* manifest.properties is a file of the project
    assets_exists,  \* the project has an assets directory
    staging_exists, \* build/package-intermediate is a directory
    staging,        \* the files of build/package-intermediate
    archives,       \* [PackagePaths -> [exists, entries]]: the .app files of build/
    pkg_platforms,  \* the platform list of the last package_all
    pkg_fault,      \* the I/O error the file system raised in it
    pkg_ret,        \* its result: "none", "True", "False", "raised"
    pkg_report,     \* the status line it printed
    pkg_tar         \* the archive path it opened for writing, or None

pkgVars == <<manifest_present, assets_exists, staging_exists, staging, archives,
             pkg_platforms, pkg_fault, pkg_ret, pkg_report, pkg_tar>>

VARIABLES
    dev_op,         \* the last device operation: "none", "info", "run", "install", "uninstall"
    dev_platforms,  \* the platform list, if that was an install_action
    dev_sent,       \* the HTTP requests it sent
    dev_response,   \* what came back: a status, or a transport failure
    dev_ret,        \* its return value: "none" (not called), "True", "False", "None"
    dev_report      \* the status line it printed

devVars == <<dev_op, dev_platforms, dev_sent, dev_response, dev_ret, dev_report>>

VARIABLES
    main_pc,        \* where the run of the program is, from "start" to "exited"
    action_arg,     \* the action of the command line: "build" or "bir"
    opt_skip_build, \* --skip-build was given
    use_local_sdk,  \* --local-sdk was given
    local_base_path, \* the global local_base_path: None, or a path
    local_sdks,     \* the platforms p whose {base}/{version}-{p}/TactilitySDK is a directory
    tool_json,      \* .tactility/tool.json: [exists, mtime, doc]
    now,            \* time.time()
    sdkconfig_cache, \* the platforms p with a .tactility/sdkconfig.app.{p}
    main_platforms, \* platforms_to_build of build_action
    net_log,        \* the downloads asked of the CDN by download_file, in order
    exit_code,      \* "none" while running; "0", "1"; "raised" for a traceback
    exit_message,   \* what exit_with_error printed
    warned          \* validate_self printed its "New version available" warning

mainVars == <<main_pc, action_arg, opt_skip_build, use_local_sdk, local_base_path,
              local_sdks, tool_json, now, sdkconfig_cache, main_platforms, net_log,
              exit_code, exit_message, warned>>

VARIABLES
    child_todo,     \* what the child process has still to write
    child_exited,   \* the child process has exited
    written,        \* everything the child wrote to its output, in order
    pipe,           \* the bytes in the OS pipe: written, not read yet
    readbuf,        \* the bytes process.stdout has read ahead and not returned
    blocking,       \* reads of the pipe block (sys.platform == "win32")
    wait_pc,        \* wait_for_process: "poll", "read", "drain", "returned", "raised"
    buffer          \* its buffer: the decoded lines, in order

waitVars == <<child_todo, child_exited, written, pipe, readbuf, blocking, wait_pc, buffer>>

\* The file system of the build: the build directories and what packaging
\* makes of them.
fsVars == <<listdir_order, build_dir>>
passVars == <<pc, platforms, skip_build, idx, command, log, ret, sdkconfig, sdk_path>>

otherThanBuild == <<zipVars, sdkVars, pkgVars, devVars, mainVars, waitVars>>
otherThanZip == <<buildVars, sdkVars, pkgVars, devVars, mainVars, waitVars>>
otherThanSdk == <<buildVars, zipVars, pkgVars, devVars, mainVars, waitVars>>
otherThanPkg == <<passVars, zipVars, sdkVars, devVars, mainVars, waitVars>>
otherThanDev == <<passVars, zipVars, sdkVars, pkgVars, mainVars, waitVars>>
otherThanMain == <<zipVars, pkgVars, devVars, waitVars>>
otherThanWait == <<buildVars, zipVars, sdkVars, pkgVars, devVars, mainVars>>

\* ------------------------------------------------------------- build: code

\* find_elf_file on a build directory holding files: the first listed file
\* that ends in ".app.elf", or None.  (A missing directory lists nothing.)
find_elf_file(files) ==
    LET hits == {i \in 1..Len(listdir_order) :
                    /\ listdir_order[i] \in files
                    /\ endswith(listdir_order[i], AppElfSuffix)}
    IN IF hits = {} THEN None
       ELSE listdir_order[CHOOSE i \in hits : \A j \in hits : i <= j]

\* {base_path}/{version}-{platform}/TactilitySDK.
local_sdk_dir(base, platform) == base \o <<platform, "TactilitySDK">>

\* get_sdk_dir in local mode takes its base path from the global
\* local_base_path, not from the environment's TACTILITY_SDK_PATH.
base_path_from_environment(local_base, environment) == environment
base_path(local_base, environment) == local_base

\* get_sdk_dir: in local mode below the base path, in remote mode
\* {ttbuild_path}/{version}-{platform}/TactilitySDK.
get_sdk_dir(platform) ==
    IF use_local_sdk
    THEN local_sdk_dir(base_path(local_base_path, sdk_path), platform)
    ELSE <<".tactility", platform, "TactilitySDK">>

\* get_sdk_dir ends the process with exit_with_error: local mode without a
\* base path, or without the platform's directory.
get_sdk_dir_exits(platform) ==
    /\ use_local_sdk
    /\ \/ base_path(local_base_path, sdk_path) = None
       \/ get_sdk_dir(platform) \notin local_sdks

\* build_all's choice between build_first and build_consecutively.
build_all_variant_always_first(files) == "build"
build_all_variant_inverted(files) == IF find_elf_file(files) = None THEN "elf" ELSE "build"
build_all_variant(files) == IF find_elf_file(files) = None THEN "build" ELSE "elf"

\* build_first after the command: exit code 0 is success, otherwise the
\* presence of an ELF file decides.
build_first_result_exit_only(returncode, files) == returncode = 0
build_first_result(returncode, files) ==
    IF returncode = 0 THEN TRUE
    ELSE find_elf_file(files) # None

\* build_consecutively after the command: the exit code decides.
build_consecutively_result_by_elf(returncode, files) ==
    build_first_result(returncode, files)
build_consecutively_result(returncode, files) == returncode = 0

\* build_all leaves its loop at the first step that returns False.
build_all_stops_never(ok) == FALSE
build_all_stops(ok) == ~ok

NoCommand == [platform |-> 0, variant |-> "none"]

\* No build pass has been started.
BuildQuiet ==
    /\ pc = "idle"
    /\ platforms = <<1>>
    /\ skip_build = FALSE
    /\ idx = 1
    /\ command = NoCommand
    /\ log = << >>
    /\ ret = "pending"
    /\ sdkconfig = 0
    /\ sdk_path = << >>

\* The loop of build_all after a platform's step returned ok: the next
\* platform, or the return.
Advance(ok) ==
    IF build_all_stops(ok)
    THEN /\ pc' = "returned" /\ ret' = "False" /\ idx' = idx
    ELSE IF idx = Len(platforms)
         THEN /\ pc' = "returned" /\ ret' = "True" /\ idx' = idx + 1
         ELSE /\ pc' = "loop" /\ ret' = ret /\ idx' = idx + 1

\* build_all is called.
build_all_begin(ps, sb) ==
    /\ pc \in {"idle", "returned"}
    /\ platforms' = ps
    /\ skip_build' = sb
    /\ idx' = 1
    /\ log' = << >>
    /\ ret' = "pending"
    /\ pc' = "loop"
    /\ command' = NoCommand
    /\ UNCHANGED <<listdir_order, build_dir, sdkconfig, sdk_path>>
    /\ UNCHANGED otherThanBuild

\* build_first and build_consecutively return True before the external
\* command if skip_build is set.
skips_tool_never(skip) == FALSE
skips_tool(skip) == skip

\* One pass of build_all's loop up to the external command: the probe, then
\* build_first or build_consecutively up to subprocess.Popen (or to the
\* return of skip_build).  get_sdk_dir may end the process (pc "exited");
\* shutil.copy raises if the cache has no configuration file for the
\* platform (pc "raised").
build_platform ==
    /\ pc = "loop"
    /\ idx <= Len(platforms)
    /\ LET p == platforms[idx]
           variant == build_all_variant(build_dir[p])
           elf_path == find_elf_file(build_dir[p])
       IN IF get_sdk_dir_exits(p)
          THEN /\ pc' = "exited"
               /\ UNCHANGED <<sdk_path, sdkconfig, build_dir, log, idx, ret, command>>
          ELSE IF p \notin sdkconfig_cache
          THEN /\ sdk_path' = get_sdk_dir(p)
               /\ pc' = "raised"
               /\ UNCHANGED <<sdkconfig, build_dir, log, idx, ret, command>>
          ELSE /\ sdk_path' = get_sdk_dir(p)
               /\ sdkconfig' = p
               /\ IF variant = "build" /\ elf_path # None
                  THEN build_dir' = [build_dir EXCEPT ![p] = @ \ {elf_path}]
                  ELSE build_dir' = build_dir
               /\ IF skips_tool(skip_build)
                  THEN /\ log' = Append(log, [platform |-> p, variant |-> variant,
                                              invoked |-> FALSE, returncode |-> 0,
                                              ok |-> TRUE, printed |-> FALSE])
                       /\ command' = NoCommand
                       /\ Advance(TRUE)
                  ELSE /\ command' = [platform |-> p, variant |-> variant]
                       /\ pc' = "tool"
                       /\ UNCHANGED <<log, idx, ret>>
    /\ UNCHANGED <<listdir_order, platforms, skip_build>>
    /\ UNCHANGED otherThanBuild

\* The external command ends with exit code returncode, having left files in
\* the platform's build directory; build_first or build_consecutively
\* decides, prints the buffered output on failure, and build_all goes on.
tool_exit(returncode, files) ==
    /\ pc = "tool"
    /\ LET p == command.platform
           ok == IF command.variant = "build"
                 THEN build_first_result(returncode, files)
                 ELSE build_consecutively_result(returncode, files)
       IN /\ build_dir' = [build_dir EXCEPT ![p] = files]
          /\ log' = Append(log, [platform |-> p, variant |-> command.variant,
                                 invoked |-> TRUE, returncode |-> returncode,
                                 ok |-> ok, printed |-> ~ok])
          /\ Advance(ok)
    /\ command' = NoCommand
    /\ UNCHANGED <<listdir_order, platforms, skip_build, sdkconfig, sdk_path>>
    /\ UNCHANGED otherThanBuild

\* ---------------------------------------------------------------- packager

\* A file of the staging directory or of an archive: manifest.properties,
\* elf/{platform}.elf (a copy of the build's file src) or the assets tree.
ManifestEntry == [kind |-> "manifest", platform |-> 0, src |-> None]
ElfEntry(p, src) == [kind |-> "elf", platform |-> p, src |-> src]
AssetsEntry == [kind |-> "assets", platform |-> 0, src |-> None]

AppElfNames == {f \in FileNames : endswith(f, AppElfSuffix)}
Entries == {ManifestEntry, AssetsEntry} \cup {ElfEntry(p, f) : p \in Platforms, f \in AppElfNames}

\* package_name: build/{name of the first platform's ELF without ".app.elf"}.app
package_path(elf_path) == <<"build">> \o removesuffix(elf_path, AppElfSuffix) \o <<".app">>
package_name_of_last(ps) == package_path(find_elf_file(build_dir[ps[Len(ps)]]))
package_name(ps) == package_path(find_elf_file(build_dir[ps[1]]))
PackagePaths == {package_path(f) : f \in AppElfNames}

NoArchive == [exists |-> FALSE, entries |-> {}]

\* The I/O errors the file system may raise during a package_all.
NoFault == [at |-> "none", k |-> 0]
Faults ==
    {[at |-> a, k |-> 0] :
        a \in {"none", "rmtree", "makedirs", "copy_manifest", "copytree",
                "tar_open", "tar_add"}}
    \cup {[at |-> "copy_elf", k |-> k] : k \in 1..NumPlatforms}

\* package_intermediate starts from a clean staging directory: rmtree.
rmtree_keeps_files(files) == files
rmtree(files) == {}

\* package_intermediate_binaries on a platform without an ELF file: it
\* returns False.
missing_elf_skipped(elf_path) == FALSE
missing_elf_fails(elf_path) == elf_path = None

\* package_intermediate_binaries from the k-th platform on, staged being the
\* staging directory so far: the result and the staging directory.
RECURSIVE package_intermediate_binaries(_, _, _, _)
package_intermediate_binaries(ps, k, fault, staged) ==
    IF k > Len(ps) THEN [result |-> "True", staged |-> staged]
    ELSE LET elf_path == find_elf_file(build_dir[ps[k]])
         IN IF missing_elf_fails(elf_path) THEN [result |-> "False", staged |-> staged]
            ELSE IF elf_path = None
                 THEN package_intermediate_binaries(ps, k + 1, fault, staged)
            ELSE IF fault = [at |-> "copy_elf", k |-> k]
                 THEN [result |-> "raised", staged |-> staged]
            ELSE package_intermediate_binaries(ps, k + 1, fault,
                    {e \in staged : ~(e.kind = "elf" /\ e.platform = ps[k])}
                        \cup {ElfEntry(ps[k], elf_path)})

\* package_intermediate: the result ("True", "False", or "raised" for an
\* exception that leaves it), whether the staging directory exists, and its
\* files.
package_intermediate(ps, fault) ==
    IF staging_exists /\ fault.at = "rmtree"
    THEN [result |-> "raised", exists |-> TRUE, staged |-> staging]
    ELSE IF fault.at = "makedirs"
    THEN [result |-> "raised", exists |-> FALSE, staged |-> {}]
    ELSE LET clean == IF staging_exists THEN rmtree(staging) ELSE {}
         IN IF ~manifest_present
            THEN [result |-> "False", exists |-> TRUE, staged |-> clean]
            ELSE IF fault.at = "copy_manifest"
            THEN [result |-> "raised", exists |-> TRUE, staged |-> clean]
            ELSE CHOOSE r \in
                    {IF binaries.result # "True"
                     THEN [result |-> binaries.result, exists |-> TRUE,
                           staged |-> binaries.staged]
                     ELSE IF assets_exists /\ fault.at = "copytree"
                     THEN [result |-> "raised", exists |-> TRUE, staged |-> binaries.staged]
                     ELSE [result |-> "True", exists |-> TRUE,
                           staged |-> binaries.staged
                                      \cup (IF assets_exists THEN {AssetsEntry} ELSE {})] :
                        binaries \in {package_intermediate_binaries(
                                        ps, 1, fault, clean \cup {ManifestEntry})}} : TRUE

\* package_all: the staging, then under try the tar archive of the staging
\* directory at the package path.  pkg_fault keeps the I/O error that was
\* raised, if the run came to the place where the file system raises it.
package_all(ps, fault) ==
    /\ pc \in {"idle", "returned"}
    /\ \E staged \in {package_intermediate(ps, fault)} :
       \E elf_path \in {find_elf_file(build_dir[ps[1]])} :
          /\ staging_exists' = staged.exists
          /\ staging' = staged.staged
          /\ CASE staged.result = "raised" ->
                    /\ pkg_ret' = "raised"
                    /\ pkg_report' = ""
                    /\ pkg_tar' = None
                    /\ pkg_fault' = fault
                    /\ archives' = archives
               [] staged.result = "False" ->
                    /\ pkg_ret' = "False"
                    /\ pkg_report' = "Building package failed: missing inputs"
                    /\ pkg_tar' = None
                    /\ pkg_fault' = NoFault
                    /\ archives' = archives
               [] staged.result = "True" /\ (elf_path = None \/ fault.at = "tar_open") ->
                    /\ pkg_ret' = "False"
                    /\ pkg_report' = "Building package failed: e"
                    /\ pkg_tar' = None
                    /\ pkg_fault' = fault
                    /\ archives' = archives
               [] staged.result = "True" /\ elf_path # None /\ fault.at = "tar_add" ->
                    /\ pkg_ret' = "False"
                    /\ pkg_report' = "Building package failed: e"
                    /\ pkg_tar' = package_path(elf_path)
                    /\ pkg_fault' = fault
                    /\ archives' = [archives EXCEPT ![package_path(elf_path)] =
                                        [exists |-> TRUE, entries |-> {}]]
               [] OTHER ->
                    /\ pkg_ret' = "True"
                    /\ pkg_report' = "Building package"
                    /\ pkg_tar' = package_path(elf_path)
                    /\ pkg_fault' = NoFault
                    /\ archives' = [archives EXCEPT ![package_path(elf_path)] =
                                        [exists |-> TRUE, entries |-> staged.staged]]
    /\ pkg_platforms' = ps
    /\ UNCHANGED <<fsVars, manifest_present, assets_exists>>
    /\ UNCHANGED otherThanPkg

\* clean_action: shutil.rmtree("build") takes the build directories, the
\* staging directory and the archives.
clean_action ==
    /\ pc \in {"idle", "returned"}
    /\ build_dir' = [p \in Platforms |-> {}]
    /\ staging_exists' = FALSE
    /\ staging' = {}
    /\ archives' = [t \in PackagePaths |-> NoArchive]
    /\ pc' = "idle"
    /\ pkg_ret' = "none"
    /\ pkg_tar' = None
    /\ dev_ret' = "none"
    /\ dev_sent' = << >>
    /\ UNCHANGED <<listdir_order, platforms, skip_build, idx, command, log, ret,
                   sdkconfig, sdk_path>>
    /\ UNCHANGED <<manifest_present, assets_exists, pkg_platforms, pkg_fault, pkg_report>>
    /\ UNCHANGED <<dev_op, dev_platforms, dev_response, dev_report>>
    /\ UNCHANGED <<zipVars, sdkVars, mainVars, waitVars>>

\* Nothing was packaged: build/ holds no staging directory and no archive.
PkgQuiet ==
    /\ manifest_present = TRUE
    /\ assets_exists = FALSE
    /\ staging_exists = FALSE
    /\ staging = {}
    /\ archives = [t \in PackagePaths |-> NoArchive]
    /\ pkg_platforms = <<1>>
    /\ pkg_fault = NoFault
    /\ pkg_ret = "none"
    /\ pkg_report = ""
    /\ pkg_tar = None

\* A project in any state of its build directories, manifest and assets,
\* before its first packaging.
PkgInit ==
    /\ listdir_order = <<hello_app_elf, old_app_elf, hello_elf>>
    /\ build_dir \in [Platforms -> SUBSET {hello_app_elf}]
    /\ BuildQuiet
    /\ manifest_present \in BOOLEAN
    /\ assets_exists \in BOOLEAN
    /\ staging_exists = FALSE
    /\ staging = {}
    /\ archives = [t \in PackagePaths |-> NoArchive]
    /\ pkg_platforms = <<1>>
    /\ pkg_fault = NoFault
    /\ pkg_ret = "none"
    /\ pkg_report = ""
    /\ pkg_tar = None

PkgNext ==
    \/ \E ps \in PlatformLists, fault \in Faults : package_all(ps, fault)
    \/ clean_action

\* ----------------------------------------------------------- device client

\* What a request to the device can come back with: a status, or an
\* exception of the transport (requests.RequestException).
Statuses == {200, 204, 404, 500}
Responses ==
    {[kind |-> "status", status |-> n, cause |-> ""] : n \in Statuses}
    \cup {[kind |-> "transport", status |-> 0, cause |-> c] :
                c \in {"timeout", "refused", "dns"}}
NoResponse == [kind |-> "none", status |-> 0, cause |-> ""]

\* install_action on the response's status code.
status_ok_below_300(status) == status < 300
status_ok(status) == ~(status # 200)

\* install_action: every platform's ELF must exist, then the archive at the
\* package path is opened and sent.
elf_not_built_first_only(ps) == find_elf_file(build_dir[ps[1]]) = None
elf_not_built(ps) == \E i \in 1..Len(ps) : find_elf_file(build_dir[ps[i]]) = None

install_action(ps, response) ==
    /\ pc \in {"idle", "returned"}
    /\ dev_op' = "install"
    /\ dev_platforms' = ps
    /\ IF elf_not_built(ps)
       THEN /\ dev_ret' = "False"
            /\ dev_report' = "ELF file not built"
            /\ dev_sent' = << >>
            /\ dev_response' = NoResponse
       ELSE IF ~archives[package_name(ps)].exists
       THEN /\ dev_ret' = "False"
            /\ dev_report' = "Install file error"
            /\ dev_sent' = << >>
            /\ dev_response' = NoResponse
       ELSE /\ dev_sent' = <<[method |-> "PUT", path |-> "/app/install",
                              file |-> package_name(ps)]>>
            /\ dev_response' = response
            /\ IF response.kind = "transport"
               THEN /\ dev_ret' = "False"
                    /\ dev_report' = "Install request failed"
               ELSE IF status_ok(response.status)
               THEN /\ dev_ret' = "True"
                    /\ dev_report' = "Installing"
               ELSE /\ dev_ret' = "False"
                    /\ dev_report' = "Install failed"
    /\ UNCHANGED <<fsVars, archives>>
    /\ UNCHANGED <<manifest_present, assets_exists, staging_exists, staging,
                   pkg_platforms, pkg_fault, pkg_ret, pkg_report, pkg_tar>>
    /\ UNCHANGED <<passVars, zipVars, sdkVars, mainVars, waitVars>>

\* How a request to the device ended: with status 200 ("ok"), with another
\* status ("status"), or with an exception of the transport ("exception").
request_outcome(response) ==
    IF response.kind = "transport" THEN "exception"
    ELSE IF status_ok(response.status) THEN "ok"
    ELSE "status"

\* What each device operation prints for each outcome.
device_reports(op) ==
    CASE op = "info" ->
            [ok |-> "Received device info:", status |-> "Run failed",
             exception |-> "Device info request failed"]
      [] op = "run" ->
            [ok |-> "Running", status |-> "Run failed",
             exception |-> "Running request failed"]
      [] op = "install" ->
            [ok |-> "Installing", status |-> "Install failed",
             exception |-> "Install request failed"]
      [] op = "uninstall" ->
            [ok |-> "Uninstalled", status |-> "Server responded that uninstall failed",
             exception |-> "Uninstall request failed"]

\* What each device operation returns to its caller for each outcome:
\* install_action returns True or False, the other three have no return
\* statement and return None.
device_returns(op, outcome) ==
    IF op = "install"
    THEN (IF outcome = "ok" THEN "True" ELSE "False")
    ELSE "None"

\* get_device_info, run_action and uninstall_action: one request under
\* try / except requests.RequestException, a line printed, nothing returned.
device_operation(op, method, path, response) ==
    /\ dev_sent' = <<[method |-> method, path |-> path, file |-> None]>>
    /\ dev_response' = response
    /\ dev_ret' = device_returns(op, request_outcome(response))
    /\ dev_report' = device_reports(op)[request_outcome(response)]
    /\ dev_platforms' = <<1>>
    /\ UNCHANGED <<fsVars, archives>>
    /\ UNCHANGED <<manifest_present, assets_exists, staging_exists, staging,
                   pkg_platforms, pkg_fault, pkg_ret, pkg_report, pkg_tar>>
    /\ UNCHANGED <<passVars, zipVars, sdkVars, mainVars, waitVars>>

get_device_info(response) ==
    /\ pc \in {"idle", "returned"}
    /\ dev_op' = "info"
    /\ device_operation("info", "GET", "/info", response)

run_action(response) ==
    /\ pc \in {"idle", "returned"}
    /\ dev_op' = "run"
    /\ device_operation("run", "POST", "/app/run", response)

uninstall_action(response) ==
    /\ pc \in {"idle", "returned"}
    /\ dev_op' = "uninstall"
    /\ device_operation("uninstall", "PUT", "/app/uninstall", response)

\* No device request was made.
DevQuiet ==
    /\ dev_op = "none"
    /\ dev_platforms = <<1>>
    /\ dev_sent = << >>
    /\ dev_response = NoResponse
    /\ dev_ret = "none"
    /\ dev_report = ""

\* A project in any state of its build directories and archives.
DevInit ==
    /\ listdir_order \in ListOrders
    /\ build_dir \in [Platforms -> SUBSET AppElfNames]
    /\ BuildQuiet
    /\ manifest_present = TRUE
    /\ assets_exists = FALSE
    /\ staging_exists = FALSE
    /\ staging = {}
    /\ archives \in [PackagePaths -> {NoArchive, [exists |-> TRUE, entries |-> {ManifestEntry}]}]
    /\ pkg_platforms = <<1>>
    /\ pkg_fault = NoFault
    /\ pkg_ret = "none"
    /\ pkg_report = ""
    /\ pkg_tar = None
    /\ DevQuiet

DevNext ==
    \/ \E ps \in PlatformLists, response \in Responses : install_action(ps, response)
    \/ \E response \in Responses : get_device_info(response)
    \/ \E response \in Responses : run_action(response)
    \/ \E response \in Responses : uninstall_action(response)
    \/ clean_action

\* Packaging and installing, over the build directories of DevInit, for the
\* platform lists made of the first two platforms.
DeployResponses == {r \in Responses : r.status \in {200, 500}}
DeployLists == {<<1>>, <<2>>, <<1, 2>>, <<2, 1>>}
DeployNext ==
    \/ \E ps \in DeployLists : package_all(ps, NoFault)
    \/ \E ps \in DeployLists, response \in DeployResponses : install_action(ps, response)

BuildInit ==
    /\ listdir_order = <<hello_app_elf, old_app_elf, hello_elf>>
    /\ build_dir \in [Platforms -> (SUBSET ToolFiles) \cup {{hello_app_elf, old_app_elf}}]
    /\ BuildQuiet

BuildNext ==
    \/ \E ps \in PlatformLists, sb \in BOOLEAN : build_all_begin(ps, sb)
    \/ build_platform
    \/ \E rc \in ExitCodes, files \in SUBSET ToolFiles : tool_exit(rc, files)
    \/ clean_action

\* ----------------------------------------------------- safe_extract_zip

\* A path is the sequence of its segments from the root.  Its string is the
\* sequence of its characters, where a segment's name is one character but
\* for "TactilitySDK2", whose name begins with the name "TactilitySDK".
Sep == "/"
Chars(segment) ==
    IF segment = "TactilitySDK2" THEN <<"TactilitySDK", "2">> ELSE <<segment>>

RECURSIVE path_string(_)
path_string(path) ==
    IF path = << >> THEN << >>
    ELSE path_string(SubSeq(path, 1, Len(path) - 1)) \o <<Sep>> \o Chars(path[Len(path)])

startswith(s, prefix) ==
    /\ Len(s) >= Len(prefix)
    /\ SubSeq(s, 1, Len(prefix)) = prefix

\* os.path.join(target_dir, filename): an absolute file name replaces the
\* directory.
os_path_join(dir, filename) ==
    IF filename.absolute THEN filename.segments ELSE dir \o filename.segments

\* os.path.realpath on a path without symbolic links: "." is dropped and
\* ".." leaves the directory it follows (the root is its own parent).
RECURSIVE realpath_from(_, _)
realpath_from(done, rest) ==
    IF rest = << >> THEN done
    ELSE IF rest[1] = "." THEN realpath_from(done, Tail(rest))
    ELSE IF rest[1] = ".."
         THEN realpath_from(IF done = << >> THEN done
                            ELSE SubSeq(done, 1, Len(done) - 1), Tail(rest))
    ELSE realpath_from(Append(done, rest[1]), Tail(rest))

realpath(path) == realpath_from(<< >>, path)

\* The canonical SDK directory {ttbuild_path}/{version}-{platform}/TactilitySDK
\* of the platform whose SDK is extracted.
TargetDir == <<"cache", "TactilitySDK">>

\* The file names an archive entry may carry.
m_lib == [absolute |-> FALSE, segments |-> <<"lib">>]
m_norm == [absolute |-> FALSE, segments |-> <<"lib", "..", "inc">>]
m_dot == [absolute |-> FALSE, segments |-> <<".", "inc">>]
m_self == [absolute |-> FALSE, segments |-> <<"lib", "..">>]
m_sibling == [absolute |-> FALSE, segments |-> <<"..", "TactilitySDK2">>]
m_parent == [absolute |-> FALSE, segments |-> <<"..", "..", "etc">>]
m_abs == [absolute |-> TRUE, segments |-> <<"etc">>]
Members == {m_lib, m_norm, m_dot, m_self, m_sibling, m_parent, m_abs}
Archives == SeqsOver(Members, MaxEntries)

\* The test of safe_extract_zip on one entry:
\* dest.startswith(target_dir + os.sep).
member_ok_without_sep(target_dir, filename) ==
    startswith(path_string(realpath(os_path_join(target_dir, filename))),
               path_string(target_dir))
member_ok(target_dir, filename) ==
    startswith(path_string(realpath(os_path_join(target_dir, filename))),
               path_string(target_dir) \o <<Sep>>)

\* Where ZipFile.extractall writes an entry: under the directory, the
\* entry's name without its "..", "." and leading separator.
RECURSIVE without_dots(_)
without_dots(segments) ==
    IF segments = << >> THEN << >>
    ELSE IF segments[1] \in {".", ".."} THEN without_dots(Tail(segments))
    ELSE <<segments[1]>> \o without_dots(Tail(segments))

extractall(target_dir, members) ==
    {target_dir \o without_dots(members[i].segments) : i \in 1..Len(members)}

\* safe_extract_zip as a whole: it raises ValueError at the first entry that
\* fails the test, and extracts only after the loop.
safe_extract_zip_check_last(target_dir, members) ==
    [raised |-> \E i \in 1..Len(members) : ~member_ok(target_dir, members[i]),
     written |-> extractall(target_dir, members)]
safe_extract_zip(target_dir, members) ==
    IF \E i \in 1..Len(members) : ~member_ok(target_dir, members[i])
    THEN [raised |-> TRUE, written |-> {}]
    ELSE [raised |-> FALSE, written |-> extractall(target_dir, members)]

\* One pass of the checking loop.
safe_extract_check ==
    /\ zip_pc = "check"
    /\ zip_i <= Len(zip_members)
    /\ IF member_ok(realpath(TargetDir), zip_members[zip_i])
       THEN /\ zip_i' = zip_i + 1
            /\ zip_pc' = zip_pc
       ELSE /\ zip_i' = zip_i
            /\ zip_pc' = "raised"
    /\ UNCHANGED <<zip_members, zip_written>>
    /\ UNCHANGED otherThanZip

\* The loop is over: zip_ref.extractall(target_dir).
safe_extract_extractall ==
    /\ zip_pc = "check"
    /\ zip_i > Len(zip_members)
    /\ zip_written' = zip_written \cup extractall(realpath(TargetDir), zip_members)
    /\ zip_pc' = "done"
    /\ UNCHANGED <<zip_members, zip_i>>
    /\ UNCHANGED otherThanZip

\* No archive is being extracted.
ZipQuiet ==
    /\ zip_members = << >>
    /\ zip_pc = "done"
    /\ zip_i = 1
    /\ zip_written = {}

\* safe_extract_zip is called with an archive, on a directory that does not
\* exist yet (sdk_download extracts only when the SDK directory is absent).
ZipInit ==
    /\ zip_members \in Archives
    /\ zip_pc = "check"
    /\ zip_i = 1
    /\ zip_written = {}

ZipNext ==
    \/ safe_extract_check
    \/ safe_extract_extractall

\* ------------------------------------------------------------ SDK download

\* os.path.isdir of the SDK directory: extraction made it if it wrote a file
\* below it.
isdir(dir, files) == \E f \in files : Len(f) > Len(dir) /\ SubSeq(f, 1, Len(dir)) = dir

\* sdk_exists: the SDK directory of the platform is a directory.
sdk_exists_never(platform) == FALSE
sdk_exists(platform) == isdir(TargetDir, sdk_tree[platform])

\* What the CDN and the archive can do to one sdk_download.
SdkArchives == {<< >>, <<m_lib>>, <<m_lib, m_parent>>, <<m_sibling>>}
SdkOutcomes ==
    {[kind |-> k, archive |-> << >>] :
        k \in {"index_fail", "bad_index", "no_platform", "zip_fail", "bad_zip"}}
    \cup {[kind |-> "archive", archive |-> a] : a \in SdkArchives}
    \cup {[kind |-> "extract_fail", archive |-> <<m_lib>>]}

\* One resolution of a platform by sdk_download_all: whether sdk_download
\* was called, how it ended ("archive": it returned True), the downloads it
\* asked the CDN for, and whether it left the SDK directory.
CacheHit == [fetch |-> FALSE, kind |-> "hit", requests |-> 0, made |-> FALSE]
Fetch(kind, requests, made) ==
    [fetch |-> TRUE, kind |-> kind, requests |-> requests, made |-> made]

\* The loop of sdk_download_all after a platform was dealt with.
SdkAdvance(result) ==
    IF result # "True"
    THEN /\ sdk_pc' = "returned" /\ sdk_ret' = result /\ sdk_idx' = sdk_idx
    ELSE IF sdk_idx = Len(sdk_platforms)
         THEN /\ sdk_pc' = "returned" /\ sdk_ret' = "True" /\ sdk_idx' = sdk_idx + 1
         ELSE /\ sdk_pc' = "loop" /\ sdk_ret' = sdk_ret /\ sdk_idx' = sdk_idx + 1

\* sdk_download_all is called.
sdk_download_all_begin(ps) ==
    /\ sdk_pc \in {"idle", "returned"}
    /\ sdk_calls < MaxCalls
    /\ sdk_calls' = sdk_calls + 1
    /\ sdk_platforms' = ps
    /\ sdk_idx' = 1
    /\ sdk_ret' = "pending"
    /\ sdk_pc' = "loop"
    /\ UNCHANGED <<sdk_tree, sdk_log>>
    /\ UNCHANGED otherThanSdk

\* The loop finds the platform's SDK directory: a cache hit.
sdk_cache_hit ==
    /\ sdk_pc = "loop"
    /\ sdk_exists(sdk_platforms[sdk_idx])
    /\ sdk_log' = [sdk_log EXCEPT ![sdk_platforms[sdk_idx]] = Append(@, CacheHit)]
    /\ SdkAdvance("True")
    /\ UNCHANGED <<sdk_tree, sdk_platforms, sdk_calls>>
    /\ UNCHANGED otherThanSdk

\* The loop finds no SDK directory and calls sdk_download, to which the CDN
\* answers with outcome: the index download fails; the index is not JSON or
\* has no "platforms" (json.load or the lookup raises); the index lacks the
\* platform; the archive download fails; the archive is no zip file
\* (zipfile raises); the archive arrives and is checked and extracted; or
\* it passes the check and extractall raises after it wrote the entries of
\* outcome.archive (a damaged entry, a full disk).
sdk_download(outcome) ==
    /\ sdk_pc = "loop"
    /\ ~sdk_exists(sdk_platforms[sdk_idx])
    /\ \E p \in {sdk_platforms[sdk_idx]} :
       \E extraction \in {safe_extract_zip(realpath(TargetDir), outcome.archive)} :
         CASE outcome.kind = "index_fail" ->
                 /\ sdk_log' = [sdk_log EXCEPT ![p] = Append(@, Fetch("index_fail", 1, FALSE))]
                 /\ SdkAdvance("False")
                 /\ UNCHANGED sdk_tree
            [] outcome.kind = "bad_index" ->
                 /\ sdk_log' = [sdk_log EXCEPT ![p] = Append(@, Fetch("bad_index", 1, FALSE))]
                 /\ SdkAdvance("raised")
                 /\ UNCHANGED sdk_tree
            [] outcome.kind = "no_platform" ->
                 /\ sdk_log' = [sdk_log EXCEPT ![p] = Append(@, Fetch("no_platform", 1, FALSE))]
                 /\ SdkAdvance("False")
                 /\ UNCHANGED sdk_tree
            [] outcome.kind = "zip_fail" ->
                 /\ sdk_log' = [sdk_log EXCEPT ![p] = Append(@, Fetch("zip_fail", 2, FALSE))]
                 /\ SdkAdvance("False")
                 /\ UNCHANGED sdk_tree
            [] outcome.kind = "bad_zip" ->
                 /\ sdk_log' = [sdk_log EXCEPT ![p] = Append(@, Fetch("bad_zip", 2, FALSE))]
                 /\ SdkAdvance("raised")
                 /\ UNCHANGED sdk_tree
            [] outcome.kind = "archive" ->
                 /\ sdk_tree' = [sdk_tree EXCEPT ![p] = @ \cup extraction.written]
                 /\ sdk_log' = [sdk_log EXCEPT ![p] =
                        Append(@, Fetch(IF extraction.raised THEN "rejected" ELSE "archive",
                                        2, isdir(TargetDir, sdk_tree'[p])))]
                 /\ SdkAdvance(IF extraction.raised THEN "raised" ELSE "True")
            [] outcome.kind = "extract_fail" ->
                 /\ sdk_tree' = [sdk_tree EXCEPT ![p] = @ \cup extraction.written]
                 /\ sdk_log' = [sdk_log EXCEPT ![p] =
                        Append(@, Fetch("extract_fail", 2, isdir(TargetDir, sdk_tree'[p])))]
                 /\ SdkAdvance("raised")
    /\ UNCHANGED <<sdk_platforms, sdk_calls>>
    /\ UNCHANGED otherThanSdk

\* clear_cache_action: shutil.rmtree(ttbuild_path).
clear_cache_action ==
    /\ sdk_pc \in {"idle", "returned"}
    /\ sdk_tree' = [p \in Platforms |-> {}]
    /\ sdk_calls' = 0
    /\ sdk_log' = [p \in Platforms |-> << >>]
    /\ sdk_pc' = "idle"
    /\ UNCHANGED <<sdk_platforms, sdk_idx, sdk_ret>>
    /\ UNCHANGED otherThanSdk

\* The cache is empty and SDK resolution has not been called.
SdkQuiet ==
    /\ sdk_tree = [p \in Platforms |-> {}]
    /\ sdk_pc = "idle"
    /\ sdk_platforms = <<1>>
    /\ sdk_idx = 1
    /\ sdk_ret = "pending"
    /\ sdk_calls = 0
    /\ sdk_log = [p \in Platforms |-> << >>]

SdkNext ==
    \/ \E ps \in PlatformLists : sdk_download_all_begin(ps)
    \/ sdk_cache_hit
    \/ \E outcome \in SdkOutcomes : sdk_download(outcome)
    \/ clear_cache_action

\* ------------------------------------------------------------ tool metadata

\* The version of this tool, character by character.
ttbuild_version == <<"3", ".", "4", ".", "0">>
\* The freshness window of the cached tool.json, in seconds.
ttbuild_sdk_json_validity == 3600

\* Clock readings and modification times, in seconds.
Times == {0, 1, 3600, 3601, 3602}

\* tool.json: the keys it has, and the values of two of them.  A pattern is
\* a regular expression of literal characters and ".", which matches any
\* character.
Keys == {"toolVersion", "toolCompatibility", "toolDownloadUrl"}
Versions == {ttbuild_version, <<"3", ".", "5", ".", "0">>}
Patterns == {<<"3", ".", "4">>, <<"3", ".", "5">>, <<"3", ".", ".">>, <<"3", "4">>}
Docs ==
    {[keys |-> k, toolVersion |-> v, toolCompatibility |-> c] :
        k \in SUBSET Keys, v \in Versions, c \in Patterns}
NoDoc == [keys |-> {}, toolVersion |-> << >>, toolCompatibility |-> << >>]
NoToolJson == [exists |-> FALSE, mtime |-> 0, doc |-> NoDoc]
\* A tool.json of the running version, and one that asks for a newer tool.
GoodDoc ==
    [keys |-> Keys, toolVersion |-> ttbuild_version, toolCompatibility |-> <<"3", ".", "4">>]
NewerDoc ==
    [keys |-> Keys, toolVersion |-> <<"3", ".", "5", ".", "0">>,
     toolCompatibility |-> <<"3", ".", "5">>]

\* re.search: the pattern matches somewhere in the string.
re_search(pattern, string) ==
    \E i \in 1..(Len(string) - Len(pattern) + 1) :
        \A j \in 1..Len(pattern) : pattern[j] = "." \/ pattern[j] = string[i + j - 1]

\* should_update_tool_json: the file is absent, or older than the window.
should_update_tool_json_at_window(file, time) ==
    IF file.exists THEN (time - file.mtime) >= ttbuild_sdk_json_validity ELSE TRUE
should_update_tool_json(file, time) ==
    IF file.exists THEN (time - file.mtime) > ttbuild_sdk_json_validity ELSE TRUE

\* validate_self ends the process for this compatibility pattern and version.
not_compatible_or_other_version(tool_compatibility, tool_version) ==
    ~re_search(tool_compatibility, ttbuild_version) \/ tool_version # ttbuild_version
not_compatible(tool_compatibility, tool_version) ==
    ~re_search(tool_compatibility, ttbuild_version)

\* validate_self: whether it ends the process, with which message, and
\* whether it printed the warning of a new version.
validate_self(sdk_json) ==
    IF "toolVersion" \notin sdk_json.keys
    THEN [exit |-> TRUE, warned |-> FALSE,
          message |-> "Server returned invalid SDK data format (toolVersion not found)"]
    ELSE IF "toolCompatibility" \notin sdk_json.keys
    THEN [exit |-> TRUE, warned |-> FALSE,
          message |-> "Server returned invalid SDK data format (toolCompatibility not found)"]
    ELSE IF "toolDownloadUrl" \notin sdk_json.keys
    THEN [exit |-> TRUE, warned |-> FALSE,
          message |-> "Server returned invalid SDK data format (toolDownloadUrl not found)"]
    ELSE IF not_compatible(sdk_json.toolCompatibility, sdk_json.toolVersion)
    THEN [exit |-> TRUE, warned |-> sdk_json.toolVersion # ttbuild_version,
          message |-> "The tool is not compatible anymore."]
    ELSE [exit |-> FALSE, warned |-> sdk_json.toolVersion # ttbuild_version,
          message |-> ""]

\* One download_file asked of the CDN.
Download(kind, platform, ok) == [kind |-> kind, platform |-> platform, ok |-> ok]

\* sys.exit, and an exception that nothing catches.
Exit(code, message) ==
    /\ main_pc' = "exited"
    /\ exit_code' = code
    /\ exit_message' = message
Goto(label) ==
    /\ main_pc' = label
    /\ UNCHANGED <<exit_code, exit_message>>

\* The start of the program in remote mode: tool.json is downloaded if
\* should_update_tool_json says so, and the program ends if that fails.
main_update_tool_json(downloaded, doc) ==
    /\ main_pc = "start"
    /\ IF ~use_local_sdk /\ should_update_tool_json(tool_json, now)
       THEN /\ net_log' = Append(net_log, Download("tool.json", 0, downloaded))
            /\ IF downloaded
               THEN /\ tool_json' = [exists |-> TRUE, mtime |-> now, doc |-> doc]
                    /\ Goto("action")
               ELSE /\ tool_json' = tool_json
                    /\ Exit("1", "Failed to retrieve SDK info")
       ELSE /\ UNCHANGED <<net_log, tool_json>>
            /\ Goto("action")
    /\ UNCHANGED <<action_arg, opt_skip_build, use_local_sdk, local_base_path, local_sdks,
                   now, sdkconfig_cache, main_platforms, warned>>
    /\ UNCHANGED <<buildVars, sdkVars>>
    /\ UNCHANGED otherThanMain

\* build_action in remote mode reads tool.json and validates it.
build_action_validate_self ==
    /\ main_pc = "validate_self"
    /\ IF use_local_sdk
       THEN /\ Goto("build")
            /\ warned' = warned
       ELSE IF ~tool_json.exists
       THEN /\ Exit("raised", "FileNotFoundError")
            /\ warned' = warned
       ELSE \E r \in {validate_self(tool_json.doc)} :
               /\ warned' = r.warned
               /\ IF r.exit THEN Exit("1", r.message) ELSE Goto("sdk")
    /\ UNCHANGED <<action_arg, opt_skip_build, use_local_sdk, local_base_path, local_sdks,
                   tool_json, now, sdkconfig_cache, main_platforms, net_log>>
    /\ UNCHANGED <<buildVars, sdkVars>>
    /\ UNCHANGED otherThanMain

\* The program is not running; its cache holds every platform's
\* configuration file.
MainQuiet ==
    /\ main_pc = "idle"
    /\ action_arg = "build"
    /\ opt_skip_build = FALSE
    /\ use_local_sdk = FALSE
    /\ local_base_path = None
    /\ local_sdks = {}
    /\ tool_json = NoToolJson
    /\ now = 0
    /\ sdkconfig_cache = Platforms
    /\ main_platforms = <<1>>
    /\ net_log = << >>
    /\ exit_code = "none"
    /\ exit_message = ""
    /\ warned = FALSE

\* The program starts, in either mode, with tool.json absent or of any age.
JsonInit ==
    /\ main_pc = "start"
    /\ action_arg = "build"
    /\ opt_skip_build = FALSE
    /\ use_local_sdk \in BOOLEAN
    /\ local_base_path = None
    /\ local_sdks = {}
    /\ tool_json \in {NoToolJson} \cup {[exists |-> TRUE, mtime |-> t, doc |-> GoodDoc] : t \in Times}
    /\ now \in Times
    /\ sdkconfig_cache = Platforms
    /\ main_platforms = <<1>>
    /\ net_log = << >>
    /\ exit_code = "none"
    /\ exit_message = ""
    /\ warned = FALSE

JsonNext ==
    \E downloaded \in BOOLEAN, doc \in {GoodDoc, NewerDoc} : main_update_tool_json(downloaded, doc)

\* build_action is about to read a tool.json of any content.
SelfInit ==
    /\ main_pc = "validate_self"
    /\ action_arg = "build"
    /\ opt_skip_build = FALSE
    /\ use_local_sdk \in BOOLEAN
    /\ local_base_path = None
    /\ local_sdks = {}
    /\ tool_json \in {[exists |-> TRUE, mtime |-> 0, doc |-> d] : d \in Docs}
    /\ now = 0
    /\ sdkconfig_cache = Platforms
    /\ main_platforms = <<1>>
    /\ net_log = << >>
    /\ exit_code = "none"
    /\ exit_message = ""
    /\ warned = FALSE

SelfNext == build_action_validate_self

\* No child process is being waited for.
WaitQuiet ==
    /\ child_todo = << >>
    /\ child_exited = TRUE
    /\ written = << >>
    /\ pipe = << >>
    /\ readbuf = << >>
    /\ blocking = FALSE
    /\ wait_pc = "returned"
    /\ buffer = << >>

\* --------------------------------------------------------- wait_for_process

\* The child's output is UTF-8 text.  Its bytes: an ASCII letter, the two
\* bytes of a two-byte character, and the newline.
Bytes == {"a", "lead", "cont", "nl"}
MaxOutput == 4
PipeCapacity == 2

\* A byte sequence that is the UTF-8 encoding of a text.
RECURSIVE ValidUtf8(_)
ValidUtf8(bs) ==
    IF bs = << >> THEN TRUE
    ELSE IF bs[1] \in {"a", "nl"} THEN ValidUtf8(Tail(bs))
    ELSE IF bs[1] = "lead" /\ Len(bs) >= 2 /\ bs[2] = "cont" THEN ValidUtf8(Tail(Tail(bs)))
    ELSE FALSE

\* bytes.decode("UTF-8"): the text's characters, where the two bytes of a
\* two-byte character make one character; it raises UnicodeDecodeError on
\* bytes that are no encoding of a text.
RECURSIVE decode_chars(_)
decode_chars(bs) ==
    IF bs = << >> THEN << >>
    ELSE IF bs[1] = "a" THEN <<"a">> \o decode_chars(Tail(bs))
    ELSE IF bs[1] = "nl" THEN <<"\n">> \o decode_chars(Tail(bs))
    ELSE <<"e'">> \o decode_chars(Tail(Tail(bs)))
decode(bs) ==
    IF ValidUtf8(bs) THEN [raised |-> FALSE, text |-> decode_chars(bs)]
    ELSE [raised |-> TRUE, text |-> << >>]

\* The position of the first newline of bs, or 0.
first_newline(bs) ==
    IF \E i \in 1..Len(bs) : bs[i] = "nl"
    THEN CHOOSE i \in 1..Len(bs) : bs[i] = "nl" /\ \A j \in 1..(i - 1) : bs[j] # "nl"
    ELSE 0

\* process.stdout.readline() on the bytes at hand: the bytes up to and
\* including the first newline, or all of them if there is none.
readline(data) ==
    LET n == first_newline(data)
    IN IF n = 0 THEN [line |-> data, rest |-> << >>]
       ELSE [line |-> SubSeq(data, 1, n), rest |-> SubSeq(data, n + 1, Len(data))]

\* The child writes the next byte of its output, if the pipe has room.
child_write ==
    /\ ~child_exited
    /\ child_todo # << >>
    /\ Len(pipe) < PipeCapacity
    /\ pipe' = Append(pipe, Head(child_todo))
    /\ written' = Append(written, Head(child_todo))
    /\ child_todo' = Tail(child_todo)
    /\ UNCHANGED <<child_exited, readbuf, blocking, wait_pc, buffer>>
    /\ UNCHANGED otherThanWait

\* The child exits, having written all of its output.
child_exit ==
    /\ ~child_exited
    /\ child_todo = << >>
    /\ child_exited' = TRUE
    /\ UNCHANGED <<child_todo, written, pipe, readbuf, blocking, wait_pc, buffer>>
    /\ UNCHANGED otherThanWait

\* while process.poll() is None: the inner loop if the child runs, the
\* final drain if it has exited.
wait_poll ==
    /\ wait_pc = "poll"
    /\ wait_pc' = (IF child_exited THEN "drain" ELSE "read")
    /\ UNCHANGED <<child_todo, child_exited, written, pipe, readbuf, blocking, buffer>>
    /\ UNCHANGED otherThanWait

\* A line, or a part of one, is decoded and appended to the buffer, and
\* control goes to label next; UnicodeDecodeError leaves wait_for_process.
append_decoded(line, next) ==
    IF decode(line).raised
    THEN /\ wait_pc' = "raised"
         /\ buffer' = buffer
    ELSE /\ wait_pc' = next
         /\ buffer' = Append(buffer, decode(line).text)

\* One pass of the inner loop: process.stdout.readline() and what follows.
\* On a non-blocking pipe it returns what is there when no newline is, and
\* nothing when nothing is there; on a blocking pipe (win32) it waits for
\* the newline or the end of the output, reading the pipe ahead.
wait_readline ==
    /\ wait_pc = "read"
    /\ LET data == readbuf \o pipe
           got == readline(data)
           at_eof == child_exited
       IN IF blocking /\ first_newline(data) = 0 /\ ~at_eof
          THEN /\ pipe # << >>
               /\ readbuf' = data
               /\ pipe' = << >>
               /\ UNCHANGED <<wait_pc, buffer>>
          ELSE /\ pipe' = << >>
               /\ readbuf' = got.rest
               /\ IF got.line = << >>
                  THEN /\ wait_pc' = "poll"
                       /\ buffer' = buffer
                  ELSE append_decoded(got.line, "read")
    /\ UNCHANGED <<child_todo, child_exited, written, blocking>>
    /\ UNCHANGED otherThanWait

\* One pass of the final loop, for line in process.stdout: the child has
\* exited and all of its output is at hand.
wait_drain ==
    /\ wait_pc = "drain"
    /\ LET got == readline(readbuf \o pipe)
       IN /\ pipe' = << >>
          /\ readbuf' = got.rest
          /\ IF got.line = << >>
             THEN /\ wait_pc' = "returned"
                  /\ buffer' = buffer
             ELSE append_decoded(got.line, "drain")
    /\ UNCHANGED <<child_todo, child_exited, written, blocking>>
    /\ UNCHANGED otherThanWait

\* The outputs of a child: every text of at most MaxOutput bytes.
ChildOutputs == {bs \in SeqsOver(Bytes, MaxOutput) : ValidUtf8(bs)}

\* wait_for_process was called on a child that has written nothing yet.
WaitInit ==
    /\ child_todo \in ChildOutputs
    /\ child_exited = FALSE
    /\ written = << >>
    /\ pipe = << >>
    /\ readbuf = << >>
    /\ blocking \in BOOLEAN
    /\ wait_pc = "poll"
    /\ buffer = << >>

WaitNext ==
    \/ child_write
    \/ child_exit
    \/ wait_poll
    \/ wait_readline
    \/ wait_drain

\* ------------------------------------------------------------- main program

\* What a step of main or build_action leaves alone, besides what it names.
MainFlags == <<action_arg, opt_skip_build, use_local_sdk, local_sdks, now>>

\* validate_environment ends the process: local mode, and the environment
\* has no TACTILITY_SDK_PATH.
validate_environment_exits == use_local_sdk /\ sdk_path = None

\* validate_local_sdks ends the process: a requested platform has no SDK
\* directory below the base path.
validate_local_sdks_first_only(ps, base) == local_sdk_dir(base, ps[1]) \notin local_sdks
validate_local_sdks(ps, base) ==
    \E i \in 1..Len(ps) : local_sdk_dir(base, ps[i]) \notin local_sdks

\* build_action up to the local validation: validate_environment, the
\* platforms to build, and in local mode the base path taken from the
\* environment and validate_local_sdks.
build_action_begin(ps) ==
    /\ main_pc = "action"
    /\ IF validate_environment_exits
       THEN /\ Exit("1", "local build was requested, but TACTILITY_SDK_PATH environment variable is not set.")
            /\ UNCHANGED <<main_platforms, local_base_path>>
       ELSE /\ main_platforms' = ps
            /\ IF use_local_sdk
               THEN /\ local_base_path' = sdk_path
                    /\ IF validate_local_sdks(ps, sdk_path)
                       THEN Exit("1", "Local SDK folder missing")
                       ELSE Goto("sdkconfig")
               ELSE /\ local_base_path' = local_base_path
                    /\ Goto("sdkconfig")
    /\ UNCHANGED <<MainFlags, tool_json, sdkconfig_cache, net_log, warned>>
    /\ UNCHANGED <<buildVars, sdkVars>>
    /\ UNCHANGED otherThanMain

\* should_fetch_sdkconfig_files: the cache lacks the file of a platform.
should_fetch_sdkconfig_files(ps) == \E i \in 1..Len(ps) : ps[i] \notin sdkconfig_cache

\* fetch_sdkconfig_files: every platform's file is downloaded, in order; the
\* download for the platform at fail_at fails (none if fail_at is 0) and
\* ends the process.
build_action_fetch_sdkconfig(fail_at) ==
    /\ main_pc = "sdkconfig"
    /\ fail_at \in 0..Len(main_platforms)
    /\ IF should_fetch_sdkconfig_files(main_platforms)
       THEN \E last \in {IF fail_at = 0 THEN Len(main_platforms) ELSE fail_at} :
               /\ net_log' = net_log \o
                     [i \in 1..last |-> Download("sdkconfig", main_platforms[i], i # fail_at)]
               /\ sdkconfig_cache' =
                     sdkconfig_cache \cup {main_platforms[i] : i \in (1..last) \ {fail_at}}
               /\ IF fail_at # 0
                  THEN Exit("1", "Failed to download sdkconfig file")
                  ELSE Goto("validate_self")
       ELSE /\ fail_at = 0
            /\ UNCHANGED <<net_log, sdkconfig_cache>>
            /\ Goto("validate_self")
    /\ UNCHANGED <<MainFlags, local_base_path, tool_json, main_platforms, warned>>
    /\ UNCHANGED <<buildVars, sdkVars>>
    /\ UNCHANGED otherThanMain

\* A step of main or build_action that only moves on.
MainMoves ==
    /\ UNCHANGED <<MainFlags, local_base_path, tool_json, sdkconfig_cache, main_platforms,
                   net_log, warned>>
    /\ UNCHANGED <<buildVars, sdkVars>>
    /\ UNCHANGED otherThanMain

\* build_action returns to main: the action "build" ends the process with
\* status 1 on False; "bir" goes on to install_action on True.
build_action_returns_ignored(ok) ==
    IF action_arg = "bir" THEN Goto("install")
    ELSE (IF ok THEN Exit("0", "") ELSE Exit("1", ""))
build_action_returns(ok) ==
    IF action_arg = "bir"
    THEN (IF ok THEN Goto("install") ELSE Exit("0", ""))
    ELSE (IF ok THEN Exit("0", "") ELSE Exit("1", ""))

\* build_action calls sdk_download_all (remote mode).
build_action_sdk_download_all ==
    /\ main_pc = "sdk"
    /\ sdk_pc = "idle"
    /\ sdk_download_all_begin(main_platforms)

\* sdk_download_all has returned: build_action ends the process on False.
build_action_sdk_returned ==
    /\ main_pc = "sdk"
    /\ sdk_pc = "returned"
    /\ CASE sdk_ret = "True" -> Goto("build")
         [] sdk_ret = "False" -> Exit("1", "Failed to download one or more SDKs")
         [] OTHER -> Exit("raised", "sdk_download")
    /\ MainMoves

\* build_action calls package_all unless skip_build is set.
packages_never(skip) == FALSE
packages(skip) == ~skip

\* build_action calls build_all.
build_action_build_all ==
    /\ main_pc = "build"
    /\ pc = "idle"
    /\ build_all_begin(main_platforms, opt_skip_build)

\* build_all has returned, or the process ended in it.
build_action_build_returned ==
    /\ main_pc = "build"
    /\ pc \in {"returned", "exited", "raised"}
    /\ CASE pc = "exited" -> Exit("1", "Local SDK folder not found")
         [] pc = "raised" -> Exit("raised", "shutil.copy")
         [] pc = "returned" /\ ret = "False" -> build_action_returns(FALSE)
         [] pc = "returned" /\ ret = "True" /\ packages(opt_skip_build) -> Goto("package")
         [] OTHER -> build_action_returns(TRUE)
    /\ MainMoves

\* build_action calls package_all.
build_action_package_all(fault) ==
    /\ main_pc = "package"
    /\ pkg_ret = "none"
    /\ package_all(main_platforms, fault)

\* package_all has returned, or an exception has left it.
build_action_package_returned ==
    /\ main_pc = "package"
    /\ pkg_ret # "none"
    /\ CASE pkg_ret = "True" -> build_action_returns(TRUE)
         [] pkg_ret = "False" -> build_action_returns(FALSE)
         [] OTHER -> Exit("raised", "package_intermediate")
    /\ MainMoves

\* "bir": install_action after a build_action that returned True.
bir_install_action(response) ==
    /\ main_pc = "install"
    /\ dev_op = "none"
    /\ install_action(main_platforms, response)

\* "bir": run_action if install_action returned True.
bir_install_returned ==
    /\ main_pc = "install"
    /\ dev_op = "install"
    /\ IF dev_ret = "True" THEN Goto("run") ELSE Exit("0", "")
    /\ MainMoves

bir_run_action(response) ==
    /\ main_pc = "run"
    /\ dev_op = "install"
    /\ run_action(response)

\* "bir": the program ends after run_action.
bir_run_returned ==
    /\ main_pc = "run"
    /\ dev_op = "run"
    /\ Exit("0", "")
    /\ MainMoves

\* The base path the environment names in local mode.
LocalBase == <<"sdks">>

\* The program starts: "build" or "bir", in either mode, with or without
\* --skip-build; in local mode with any set of local SDK directories; the
\* cache and the build directories empty or filled by an earlier run.
MainInit ==
    /\ main_pc = "start"
    /\ action_arg \in {"build", "bir"}
    /\ opt_skip_build \in BOOLEAN
    /\ use_local_sdk \in BOOLEAN
    /\ local_base_path = None
    /\ sdk_path \in (IF use_local_sdk THEN {None, LocalBase} ELSE {None})
    /\ local_sdks \in (IF use_local_sdk /\ sdk_path # None
                       THEN {{local_sdk_dir(LocalBase, p) : p \in S} : S \in SUBSET Platforms}
                       ELSE {{}})
    /\ now = 3600
    /\ tool_json \in (IF use_local_sdk THEN {NoToolJson}
                      ELSE {NoToolJson, [exists |-> TRUE, mtime |-> 3600, doc |-> GoodDoc]})
    /\ sdkconfig_cache \in {{}, Platforms}
    /\ main_platforms = <<1>>
    /\ net_log = << >>
    /\ exit_code = "none"
    /\ exit_message = ""
    /\ warned = FALSE
    /\ listdir_order = <<hello_app_elf, old_app_elf, hello_elf>>
    /\ build_dir \in {[p \in Platforms |-> {}], [p \in Platforms |-> {hello_app_elf}]}
    /\ pc = "idle"
    /\ platforms = <<1>>
    /\ skip_build = FALSE
    /\ idx = 1
    /\ command = NoCommand
    /\ log = << >>
    /\ ret = "pending"
    /\ sdkconfig = 0
    /\ sdk_tree \in (IF use_local_sdk THEN {[p \in Platforms |-> {}]}
                     ELSE {[p \in Platforms |-> {}],
                           [p \in Platforms |->
                               safe_extract_zip(realpath(TargetDir), <<m_lib>>).written]})
    /\ sdk_pc = "idle"
    /\ sdk_platforms = <<1>>
    /\ sdk_idx = 1
    /\ sdk_ret = "pending"
    /\ sdk_calls = 0
    /\ sdk_log = [p \in Platforms |-> << >>]

\* What the CDN, the build tool and the device answer in a run of the program.
MainSdkOutcomes ==
    {o \in SdkOutcomes : o.kind \in {"index_fail", "zip_fail"}
                         \/ (o.kind = "archive" /\ o.archive = <<m_lib>>)}
MainResponses == {r \in Responses : r.status \in {200, 500} \/ r.cause = "timeout"}

MainNext ==
    \/ \E downloaded \in BOOLEAN, doc \in {GoodDoc, NewerDoc} :
            main_update_tool_json(downloaded, doc)
    \/ \E ps \in PlatformLists : build_action_begin(ps)
    \/ \E fail_at \in 0..NumPlatforms : build_action_fetch_sdkconfig(fail_at)
    \/ build_action_validate_self
    \/ build_action_sdk_download_all
    \/ sdk_cache_hit
    \/ \E outcome \in MainSdkOutcomes : sdk_download(outcome)
    \/ build_action_sdk_returned
    \/ build_action_build_all
    \/ build_platform
    \/ \E rc \in ExitCodes, files \in {{}, {hello_app_elf}} : tool_exit(rc, files)
    \/ build_action_build_returned
    \/ build_action_package_all(NoFault)
    \/ build_action_package_returned
    \/ \E response \in MainResponses : bir_install_action(response)
    \/ bir_install_returned
    \/ \E response \in MainResponses : bir_run_action(response)
    \/ bir_run_returned

\* ---------------------------------------------------------- specifications

vars == <<buildVars, zipVars, sdkVars, pkgVars, devVars, mainVars, waitVars>>

\* The build directories are empty and nothing is being built.
NoBuild ==
    /\ listdir_order = <<hello_app_elf, old_app_elf, hello_elf>>
    /\ build_dir = [p \in Platforms |-> {}]
    /\ BuildQuiet

Quiet == MainQuiet /\ WaitQuiet
InitBuild == BuildInit /\ ZipQuiet /\ SdkQuiet /\ PkgQuiet /\ DevQuiet /\ Quiet
InitZip == NoBuild /\ ZipInit /\ SdkQuiet /\ PkgQuiet /\ DevQuiet /\ Quiet
InitSdk == NoBuild /\ ZipQuiet /\ SdkQuiet /\ PkgQuiet /\ DevQuiet /\ Quiet
InitPkg == PkgInit /\ ZipQuiet /\ SdkQuiet /\ DevQuiet /\ Quiet
InitDev == DevInit /\ ZipQuiet /\ SdkQuiet /\ Quiet
InitDeploy == DevInit /\ ZipQuiet /\ SdkQuiet /\ MainQuiet /\ WaitQuiet
InitJson == NoBuild /\ ZipQuiet /\ SdkQuiet /\ PkgQuiet /\ DevQuiet /\ JsonInit /\ WaitQuiet
InitMain == MainInit /\ ZipQuiet /\ PkgQuiet /\ DevQuiet /\ WaitQuiet
InitWait == NoBuild /\ ZipQuiet /\ SdkQuiet /\ PkgQuiet /\ DevQuiet /\ MainQuiet /\ WaitInit
InitSelf == NoBuild /\ ZipQuiet /\ SdkQuiet /\ PkgQuiet /\ DevQuiet /\ SelfInit /\ WaitQuiet

\* The build pass: build_all over the platforms, and clean.
SpecBuild == InitBuild /\ [][BuildNext]_vars
\* One call of safe_extract_zip on an archive.
SpecZip == InitZip /\ [][ZipNext]_vars
\* SDK resolution against the CDN, and clearcache.
SpecSdk == InitSdk /\ [][SdkNext]_vars
\* Packaging the build directories, and clean.
SpecPkg == InitPkg /\ [][PkgNext]_vars
\* Installing the package on a device, and clean.
SpecDev == InitDev /\ [][DevNext]_vars
\* One run of the program for the action "build" or "bir".
SpecMain == InitMain /\ [][MainNext]_vars
\* Packaging and installing again and again, the build output unchanged.
SpecDeploy == InitDeploy /\ [][DeployNext]_vars
\* The start of the program: the refresh of tool.json.
SpecJson == InitJson /\ [][JsonNext]_vars
\* wait_for_process and the child process it waits for.
SpecWait == InitWait /\ [][WaitNext]_vars
\* The same, where the operating system goes on running the child and the
\* interpreter goes on running the loops of wait_for_process.
WaitFairness ==
    /\ WF_vars(child_write)
    /\ WF_vars(child_exit)
    /\ WF_vars(wait_poll)
    /\ WF_vars(wait_readline)
    /\ WF_vars(wait_drain)
SpecWaitFair == InitWait /\ [][WaitNext]_vars /\ WaitFairness
\* validate_self on a tool.json of any content.
SpecSelf == InitSelf /\ [][SelfNext]_vars

\* ----------------------------------------------------------- build: claims

\* The steps of this pass that ran the external command.
Invoked(i) == i \in 1..Len(log) /\ log[i].invoked
HasAppElf(p) == \E f \in build_dir[p] : endswith(f, AppElfSuffix)

\* C1, as stated: on the first-build path build_first declares success if
\* and only if an ELF artifact exists in the platform's build directory
\* after the command, whatever the exit code.
C1_AsStated ==
    \A i \in 1..Len(log) :
        (pc # "idle" /\ Invoked(i) /\ log[i].variant = "build")
            => (log[i].ok <=> HasAppElf(log[i].platform))

\* C1, amended: on the first-build path build_first declares success if and
\* only if the exit code is zero or an ELF artifact exists in the platform's
\* build directory after the command; a non-zero exit code alone never makes
\* the build fail, and without an artifact only exit code zero is a success.
C1_FirstBuildOracle ==
    \A i \in 1..Len(log) :
        (pc # "idle" /\ Invoked(i) /\ log[i].variant = "build")
            => /\ log[i].ok <=> (log[i].returncode = 0 \/ HasAppElf(log[i].platform))
               /\ log[i].printed <=> ~log[i].ok

\* A first build that ended with a non-zero exit code, left an ELF file and
\* was declared a success.
C1_Witness ==
    \E i \in 1..Len(log) :
        /\ pc # "idle" /\ Invoked(i) /\ log[i].variant = "build"
        /\ log[i].returncode # 0 /\ HasAppElf(log[i].platform) /\ log[i].ok

\* C2: on the incremental path build_consecutively declares success if and
\* only if the exit code is zero, whatever the artifact on disk afterwards;
\* on a non-zero exit code the buffered output is printed and the platform's
\* build, and with it build_all, fails.
C2_IncrementalOracle ==
    \A i \in 1..Len(log) :
        (Invoked(i) /\ log[i].variant = "elf")
            => /\ log[i].ok <=> log[i].returncode = 0
               /\ log[i].returncode # 0
                    => log[i].printed /\ i = Len(log) /\ ret = "False"
               /\ log[i].returncode = 0 => ~log[i].printed

\* An incremental build that failed on its exit code although the ELF file
\* is on disk after the command.
C2_Witness ==
    \E i \in 1..Len(log) :
        /\ pc = "returned" /\ Invoked(i) /\ log[i].variant = "elf"
        /\ log[i].returncode # 0 /\ HasAppElf(log[i].platform)
        /\ ~log[i].ok /\ log[i].printed

\* C3: the command build_all issues for a platform is chosen by a probe of
\* the file system at decision time and by nothing else: "build" if and only
\* if no ".app.elf" file is in the platform's build directory, otherwise
\* "elf"; and in a pass the platforms that reached the external tool each
\* got exactly one command.
C3_ProbeChoosesVariant ==
    /\ [][(pc = "loop" /\ pc' = "tool")
            => /\ command'.platform = platforms[idx]
               /\ command'.variant = (IF HasAppElf(platforms[idx]) THEN "elf" ELSE "build")
               /\ command'.variant \in {"build", "elf"}]_vars
    /\ [](\A i, j \in 1..Len(log) : log[i].platform = log[j].platform => i = j)
    /\ [](pc = "tool" => \A i \in 1..Len(log) : log[i].platform # command.platform)
    /\ [](~skip_build => \A i \in 1..Len(log) : log[i].invoked)

\* In one pass the first platform, which had an artifact, got "elf" and the
\* second, which had none, gets "build".
C3_Witness ==
    /\ pc = "tool" /\ Len(log) = 1
    /\ log[1].variant = "elf" /\ command.variant = "build"

\* C4: build_all takes the platforms in the given order and stops at the
\* first whose build fails: the external tool runs for the platforms up to
\* and including that one and for none after it, and build_all returns
\* failure; it returns success only if every platform's build succeeded.
C4_FailFast ==
    /\ Len(log) <= Len(platforms)
    /\ \A i \in 1..Len(log) : log[i].platform = platforms[i]
    /\ \A i \in 1..Len(log) : ~log[i].ok => (i = Len(log) /\ pc \in {"returned", "idle"} /\ ret = "False")
    /\ pc = "tool" => command.platform = platforms[Len(log) + 1]
    /\ (pc = "returned" /\ ret = "False") => (Len(log) >= 1 /\ ~log[Len(log)].ok)
    /\ (pc = "returned" /\ ret = "True")
            => (Len(log) = Len(platforms) /\ \A i \in 1..Len(log) : log[i].ok)
    /\ pc = "returned" => ret \in {"True", "False"}

\* build_all returned failure at a platform that is not the last one: the
\* platforms after it were never built.
C4_Witness ==
    /\ pc = "returned" /\ ret = "False"
    /\ Len(log) >= 1 /\ Len(log) < Len(platforms) /\ log[1].ok = (Len(log) > 1)

\* ------------------------------------------------------ extraction: claims

StrictlyBelow(path, dir) == Len(path) > Len(dir) /\ SubSeq(path, 1, Len(dir)) = dir

\* The entry's resolved path is not a strict descendant of the target.
Escapes(filename) == ~StrictlyBelow(realpath(os_path_join(TargetDir, filename)), TargetDir)
SomeEntryEscapes == \E i \in 1..Len(zip_members) : Escapes(zip_members[i])

\* C5: safe_extract_zip checks every entry before it writes anything: while
\* the check runs no file is written; if any entry resolves to a path that
\* is not a strict descendant of the target directory, extraction ends with
\* the error and no file of the archive was written, anywhere; files are
\* written only when every entry passed, and then below the target.
C5_CheckBeforeWrite ==
    /\ zip_pc = "check" => zip_written = {}
    /\ SomeEntryEscapes => (zip_written = {} /\ zip_pc # "done")
    /\ zip_pc = "raised" => (SomeEntryEscapes /\ zip_written = {})
    /\ zip_written # {} => (zip_pc = "done" /\ ~SomeEntryEscapes)
    /\ \A f \in zip_written : StrictlyBelow(f, TargetDir)
    /\ zip_pc = "done" => Cardinality(zip_written) >= (IF zip_members = << >> THEN 0 ELSE 1)

\* Extraction ended with the error at the second entry, and the first,
\* well-formed entry was not written.
C5_Witness ==
    /\ zip_pc = "raised" /\ Len(zip_members) = 2
    /\ ~Escapes(zip_members[1]) /\ Escapes(zip_members[2])
    /\ zip_written = {}

\* ------------------------------------------------------- SDK cache: claims

SdkDirPresent(p) == \E f \in sdk_tree[p] : StrictlyBelow(f, TargetDir)
FetchesInFirstTwo(p) == Cardinality({i \in 1..2 : sdk_log[p][i].fetch})

\* C6, as stated: two SDK resolutions of a platform, the first with the SDK
\* directory absent, fetch the SDK from the network exactly once in total.
C6_AsStated ==
    \A p \in Platforms : Len(sdk_log[p]) >= 2 => FetchesInFirstTwo(p) = 1

\* C6, amended: a resolution that finds the SDK directory is a cache hit
\* without any network request, and only such a resolution is; so two
\* resolutions of a platform, the first with the SDK directory absent, fetch
\* the SDK exactly once in total if the first one's fetch leaves the SDK
\* directory, and the second fetches again if the first left none.
C6_CacheIdempotence ==
    \A p \in Platforms :
        /\ \A i, j \in 1..Len(sdk_log[p]) :
              (i < j /\ sdk_log[p][i].made)
                  => (~sdk_log[p][j].fetch /\ sdk_log[p][j].requests = 0)
        /\ \A j \in 1..Len(sdk_log[p]) :
              ~sdk_log[p][j].fetch => \E i \in 1..(j - 1) : sdk_log[p][i].made
        /\ \A j \in 1..Len(sdk_log[p]) : sdk_log[p][j].fetch => sdk_log[p][j].requests >= 1
        /\ SdkDirPresent(p) <=> \E i \in 1..Len(sdk_log[p]) : sdk_log[p][i].made
        /\ (Len(sdk_log[p]) >= 2 /\ sdk_log[p][1].made) => FetchesInFirstTwo(p) = 1
        /\ (Len(sdk_log[p]) >= 2 /\ ~sdk_log[p][1].made) => FetchesInFirstTwo(p) = 2

\* A platform was resolved twice: the first resolution fetched the SDK and
\* left its directory, the second was a cache hit.
C6_Witness ==
    \E p \in Platforms :
        /\ Len(sdk_log[p]) >= 2
        /\ sdk_log[p][1].fetch /\ sdk_log[p][1].made
        /\ ~sdk_log[p][2].fetch /\ sdk_log[p][2].requests = 0

\* -------------------------------------------------------- packager: claims

MissingElf(ps) == \E i \in 1..Len(ps) : ~HasAppElf(ps[i])

\* C7: if the ELF artifact of any requested platform is missing when
\* package_all runs, whatever its place in the list, packaging fails and no
\* archive is written: no archive file is opened, created or changed.
C7_MissingElfNoArchive ==
    /\ []((pkg_ret # "none" /\ MissingElf(pkg_platforms))
            => /\ pkg_ret \in {"False", "raised"}
               /\ pkg_tar = None
               /\ pkg_fault = NoFault => pkg_ret = "False")
    /\ [][(pkg_ret' # "none" /\ MissingElf(pkg_platforms') /\ build_dir' = build_dir)
            => archives' = archives]_vars

\* Packaging failed for a list whose first platform has its ELF and a later
\* one has not, and the archive of an earlier run is still there.
C7_Witness ==
    /\ pkg_ret = "False" /\ MissingElf(pkg_platforms)
    /\ HasAppElf(pkg_platforms[1])
    /\ archives[package_name(pkg_platforms)].exists
    /\ archives[package_name(pkg_platforms)].entries # {}

\* C8: whenever package_all succeeds for platforms P, the archive holds
\* manifest.properties and exactly one elf/{p}.elf for every p of P, and,
\* the staging directory being made anew by every run, no elf/{q}.elf and
\* no other file that an earlier run staged.
C8_ArchiveComplete ==
    pkg_ret = "True" =>
        /\ pkg_tar # None
        /\ archives[pkg_tar].exists
        /\ ManifestEntry \in archives[pkg_tar].entries
        /\ \A p \in Range(pkg_platforms) :
              Cardinality({e \in archives[pkg_tar].entries :
                              e.kind = "elf" /\ e.platform = p}) = 1
        /\ \A e \in archives[pkg_tar].entries :
              e.kind = "elf" => e.platform \in Range(pkg_platforms)
        /\ AssetsEntry \in archives[pkg_tar].entries <=> assets_exists
        /\ archives[pkg_tar].entries = staging

\* A package of one platform was built while another platform, not in the
\* list, has an ELF that a run for both would have staged.
C8_Witness ==
    /\ pkg_ret = "True" /\ Len(pkg_platforms) = 1 /\ assets_exists
    /\ \E q \in Platforms : q \notin Range(pkg_platforms) /\ HasAppElf(q)

\* C9: an I/O exception raised while staging or while writing the archive
\* is caught inside package_all and becomes the return value False; none
\* leaves package_all.
C9_NoExceptionLeaves == pkg_ret # "raised"

\* --------------------------------------------------- device client: claims

\* C10: once install_action has sent PUT /app/install, it reports success
\* if and only if the response status is 200; any other status is reported
\* as a failed install, and a transport failure as a failed request, in
\* words other than those of the failed install.
C10_InstallStatus ==
    /\ dev_ret = "True" => dev_sent # << >>
    /\ (dev_op = "install" /\ dev_sent # << >>) =>
        /\ dev_sent[1].method = "PUT" /\ dev_sent[1].path = "/app/install"
        /\ dev_ret = "True" <=> (dev_response.kind = "status" /\ dev_response.status = 200)
        /\ dev_ret = "True" => dev_report = "Installing"
        /\ (dev_response.kind = "status" /\ dev_response.status # 200)
              => (dev_ret = "False" /\ dev_report = "Install failed")
        /\ dev_response.kind = "transport"
              => (dev_ret = "False" /\ dev_report = "Install request failed")

\* The device answered the install request with status 500 and the install
\* was reported as failed.
C10_Witness ==
    /\ dev_op = "install" /\ dev_sent # << >> /\ dev_response.kind = "status" /\ dev_response.status = 500
    /\ dev_ret = "False" /\ dev_report = "Install failed"

\* A request was sent and it did not end with status 200.
RequestFailed(response) == request_outcome(response) # "ok"

\* C11: for each of the four device operations an exception of the
\* transport never leaves the operation, and a failed request (an exception
\* or a status other than 200) is reported to the caller as a failure: what
\* the operation returns after a failed request differs from what it returns
\* after a successful one, so that its caller can tell them apart.
C11_CallerCanTell ==
    dev_sent # << >> =>
        /\ dev_ret \in {"True", "False", "None"}
        /\ \A r \in Responses :
              RequestFailed(r) # RequestFailed(dev_response)
                  => device_returns(dev_op, request_outcome(r)) # dev_ret

\* ------------------------------------------------------ tool metadata: claims

HasAllKeys(doc) == Keys \subseteq doc.keys
PatternMatches(doc) == re_search(doc.toolCompatibility, ttbuild_version)

\* C15: validate_self ends the process when one of the keys toolVersion,
\* toolCompatibility, toolDownloadUrl is missing, and when the
\* toolCompatibility pattern does not match the version of this tool; when
\* the pattern matches and toolVersion is another version, it warns and
\* validation completes, the process going on.
C15_ValidateSelf ==
    (main_pc # "validate_self" /\ ~use_local_sdk) =>
        /\ ~HasAllKeys(tool_json.doc)
              => (main_pc = "exited" /\ exit_code = "1" /\ ~warned)
        /\ (HasAllKeys(tool_json.doc) /\ ~PatternMatches(tool_json.doc))
              => (main_pc = "exited" /\ exit_code = "1"
                  /\ exit_message = "The tool is not compatible anymore.")
        /\ (HasAllKeys(tool_json.doc) /\ PatternMatches(tool_json.doc))
              => /\ main_pc = "sdk" /\ exit_code = "none"
                 /\ warned <=> tool_json.doc.toolVersion # ttbuild_version

\* Validation completed with the warning: tool.json names another version
\* and a pattern that matches this one.
C15_Witness ==
    /\ main_pc = "sdk" /\ ~use_local_sdk /\ warned
    /\ tool_json.doc.toolVersion # ttbuild_version
    /\ PatternMatches(tool_json.doc)

\* C16: in remote mode tool.json is fetched if and only if the cached file
\* is absent or its age, now minus its modification time, exceeds 3600
\* seconds; a file within the window is used as it is, with no request; in
\* local mode nothing is fetched.
C16_FreshnessWindow ==
    [][(main_pc = "start" /\ main_pc' # "start")
          => /\ Len(net_log') = Len(net_log) + 1
                  <=> (~use_local_sdk
                       /\ (~tool_json.exists \/ now - tool_json.mtime > 3600))
             /\ Len(net_log') = Len(net_log) => tool_json' = tool_json
             /\ Len(net_log') <= Len(net_log) + 1
             /\ \A i \in 1..Len(net_log') : net_log'[i].kind = "tool.json"]_vars

\* A cached file exactly 3600 seconds old was used without a request.
C16_Witness ==
    /\ main_pc = "action" /\ ~use_local_sdk
    /\ tool_json.exists /\ now - tool_json.mtime = 3600
    /\ net_log = << >>

\* ------------------------------------------------------ main program: claims

\* A download_file of the log failed.
DownloadFailed == \E i \in 1..Len(net_log) : ~net_log[i].ok
\* An sdk_download failed on a download of the index or of the archive.
SdkDownloadFailed == \E p \in Platforms : \E i \in 1..Len(sdk_log[p]) :
        sdk_log[p][i].fetch /\ ~sdk_log[p][i].made
\* The program was ended by exit_with_error.
ExitedWithError == main_pc = "exited" /\ exit_code = "1"

\* C12: a failed download of tool.json, of a platform's configuration file
\* or of an SDK index or archive aborts the current action only and never
\* ends the whole process.
C12_AsStated == (DownloadFailed \/ SdkDownloadFailed) => ~ExitedWithError

\* In local mode, with the base path taken from the environment, the SDK
\* directory of a requested platform is missing.
LocalSdkMissing ==
    /\ use_local_sdk
    /\ main_pc \notin {"start", "action"}
    /\ local_base_path = LocalBase
    /\ \E i \in 1..Len(main_platforms) :
          local_sdk_dir(local_base_path, main_platforms[i]) \notin local_sdks

\* C13: in local mode, if the SDK directory of any requested platform is
\* missing, whatever its place in the list, build_action ends the process
\* with an error before the external build tool is invoked for any platform
\* and before any configuration file is copied into the working directory.
C13_LocalSdkValidatedFirst ==
    LocalSdkMissing =>
        /\ ExitedWithError
        /\ exit_message = "Local SDK folder missing"
        /\ pc = "idle" /\ log = << >> /\ command = NoCommand
        /\ sdkconfig = 0
        /\ sdk_path = LocalBase

\* The process ended at the validation for a list whose first platform has
\* its SDK directory and whose second has none.
C13_Witness ==
    /\ LocalSdkMissing /\ ExitedWithError
    /\ Len(main_platforms) = 2
    /\ local_sdk_dir(LocalBase, main_platforms[1]) \in local_sdks
    /\ local_sdk_dir(LocalBase, main_platforms[2]) \notin local_sdks

\* The SDK directory that is platform p's own.
OwnSdkDir(p) ==
    IF use_local_sdk THEN <<"sdks", p, "TactilitySDK">>
    ELSE <<".tactility", p, "TactilitySDK">>

\* C19: whenever the external tool is invoked for a platform, the working
\* directory's configuration file is the copy of that platform's own and
\* TACTILITY_SDK_PATH holds that platform's own SDK directory, in remote
\* mode and in local mode; the pointer set for an earlier platform is not
\* the base path of a later one, so that the build resolves every platform
\* of the list and does not end at get_sdk_dir.
C19_OwnConfigAndPointer ==
    /\ pc = "tool" =>
          /\ sdkconfig = command.platform
          /\ sdk_path = OwnSdkDir(command.platform)
          /\ command.platform = platforms[idx]
    /\ \A i \in 1..Len(log) :
          (i = Len(log) /\ pc \in {"loop", "returned"})
              => /\ sdkconfig = log[i].platform
                 /\ sdk_path = OwnSdkDir(log[i].platform)
    /\ pc \notin {"exited", "raised"}

\* In local mode the tool is invoked for the second platform of the list,
\* after the pointer was set for the first.
C19_Witness ==
    /\ pc = "tool" /\ use_local_sdk /\ idx = 2 /\ Len(log) = 1
    /\ sdk_path = OwnSdkDir(platforms[2])
    /\ sdkconfig = platforms[2]

\* ------------------------------------------------ build: setup and artifacts

\* C14: with skip_build the external tool is never invoked, for any platform
\* and on either path, while each platform of the list gets its setup in
\* order: its configuration file becomes the working directory's sdkconfig,
\* TACTILITY_SDK_PATH is set to its SDK directory, and on the first-build
\* path the build directory holds no ELF afterwards; each step reports
\* success, and so does the pass.
C14_SkipBuild ==
    (skip_build /\ pc # "idle") =>
        /\ pc # "tool" /\ command = NoCommand
        /\ \A i \in 1..Len(log) :
              /\ ~log[i].invoked /\ log[i].ok
              /\ log[i].platform = platforms[i]
              /\ log[i].variant = "build" => ~HasAppElf(log[i].platform)
              /\ i = Len(log) =>
                    /\ sdkconfig = log[i].platform
                    /\ sdk_path = <<".tactility", log[i].platform, "TactilitySDK">>
        /\ pc = "returned" => (ret = "True" /\ Len(log) = Len(platforms))

\* A pass with skip_build over two platforms returned, the first on the
\* first-build path and the second on the consecutive path.
C14_Witness ==
    /\ skip_build /\ pc = "returned" /\ Len(log) = 2
    /\ log[1].variant = "build" /\ log[2].variant = "elf"
    /\ sdkconfig = platforms[2]

\* C18: when the first-build command is launched for a platform, its build
\* directory holds no ELF artifact; so an artifact found after a command
\* that ended with a failing exit code was produced by that run, and a
\* first build that fails and produces none is never declared successful.
C18_NoStaleElf ==
    /\ [](pc = "tool" /\ command.variant = "build" => ~HasAppElf(command.platform))
    /\ [][(pc = "tool" /\ command.variant = "build" /\ pc' # "tool")
            => LET e == log'[Len(log')]
               IN /\ e.platform = command.platform /\ e.invoked
                  /\ (e.returncode # 0 /\ e.ok)
                        => (build_dir'[e.platform] \ build_dir[e.platform]) \cap AppElfNames # {}
                  /\ (e.returncode # 0 /\ build_dir'[e.platform] \cap AppElfNames = {})
                        => ~e.ok]_vars

\* The first-build command is running for the second platform, after the
\* first platform's first build ended with a failing exit code and was
\* declared successful on the ELF it produced.
C18_Witness ==
    /\ pc = "tool" /\ command.variant = "build" /\ idx = 2 /\ Len(log) = 1
    /\ log[1].variant = "build" /\ log[1].invoked
    /\ log[1].returncode # 0 /\ log[1].ok
    /\ HasAppElf(log[1].platform)

\* ------------------------------------------------------------ package path

\* The .app files of build/.
ExistingArchives == {t \in PackagePaths : archives[t].exists}
\* build/{name}.app for the ELF file {name}.app.elf.
AppPathOf(elf) == <<"build", elf[1], ".app">>
\* The ELF file find_elf_file finds for the first platform of a list.
FirstElf(ps) == find_elf_file(build_dir[ps[1]])

\* C17: the package path is build/{name}.app for the name of the first
\* requested platform's ELF file and depends on nothing else; packaging the
\* same platform list again, the build output unchanged, opens the same
\* path, leaves the set of archives in build/ as it was and replaces the
\* archive's content; and install_action sends the file at that path, the
\* one package_all wrote for the same platform list.
C17_StablePackagePath ==
    /\ [](/\ pkg_ret = "True"
             => /\ pkg_tar = AppPathOf(FirstElf(pkg_platforms))
                /\ archives[pkg_tar].exists
          /\ (dev_op = "install" /\ dev_sent # << >>)
             => /\ dev_sent[1].file = AppPathOf(FirstElf(dev_platforms))
                /\ (pkg_ret = "True" /\ pkg_platforms = dev_platforms)
                      => dev_sent[1].file = pkg_tar)
    /\ [][(pkg_ret = "True" /\ pkg_ret' = "True" /\ pkg_platforms' = pkg_platforms)
            => /\ pkg_tar' = pkg_tar
               /\ ExistingArchives' = ExistingArchives
               /\ archives'[pkg_tar'].entries = staging']_vars

\* install_action sent the archive that package_all wrote for the same two
\* platforms, whose build directories hold ELF files of different names,
\* next to the archive of an earlier package of the other name.
C17_Witness ==
    /\ pkg_ret = "True" /\ Len(pkg_platforms) = 2
    /\ dev_op = "install" /\ dev_sent # << >> /\ dev_platforms = pkg_platforms
    /\ dev_sent[1].file = pkg_tar
    /\ FirstElf(pkg_platforms) # find_elf_file(build_dir[pkg_platforms[2]])
    /\ find_elf_file(build_dir[pkg_platforms[2]]) # None
    /\ ExistingArchives = PackagePaths

\* --------------------------------------------------------- process output

\* The lines of a text: each ends with its newline, but for a last line
\* that has none.
RECURSIVE LinesOf(_)
LinesOf(bs) ==
    IF bs = << >> THEN << >>
    ELSE <<readline(bs).line>> \o LinesOf(readline(bs).rest)

\* C20: wait_for_process returns, never before the child has exited, and
\* the buffer it returns holds the lines the child wrote, each once and in
\* the order written, whatever the interleaving of the child's writes, the
\* polling reads and the child's exit.
C20_AsStated ==
    /\ wait_pc # "raised"
    /\ wait_pc = "returned"
          => /\ child_exited
             /\ buffer = [i \in 1..Len(LinesOf(written)) |-> decode(LinesOf(written)[i]).text]

\* ------------------------------------------------------ failed SDK downloads

\* The ways sdk_download fails before anything is extracted: a download
\* fails, the index or the archive cannot be read, the index lacks the
\* platform, the archive is rejected by the check of its entries.
FailsBeforeExtraction ==
    {"index_fail", "bad_index", "no_platform", "zip_fail", "bad_zip", "rejected"}
\* The resolutions of platform p in which sdk_download failed.
FailedFetches(p) ==
    {i \in 1..Len(sdk_log[p]) : sdk_log[p][i].fetch /\ sdk_log[p][i].kind # "archive"}

\* C22, as stated: whatever makes sdk_download fail, the SDK directory stays
\* absent, and the next resolution of the platform downloads again.
C22_AsStated ==
    \A p \in Platforms : \A i \in FailedFetches(p) :
        /\ ~sdk_log[p][i].made
        /\ i < Len(sdk_log[p]) => sdk_log[p][i + 1].fetch

\* C22, amended: if sdk_download fails before extraction begins (a download
\* fails, the index or the archive is unreadable, the platform key is
\* absent, the archive is rejected by the check), nothing is extracted and
\* the SDK directory stays absent, with no archive download when the
\* platform key is absent; the next resolution of the platform downloads
\* again.  If it fails inside the extraction, the entries written so far
\* stay, and the next resolution is a cache hit when they make the SDK
\* directory.
C22_FailedDownloadLeavesNoSdk ==
    /\ [](\A p \in Platforms : \A i \in FailedFetches(p) :
            LET e == sdk_log[p][i]
            IN /\ e.kind \in FailsBeforeExtraction
                  => /\ ~e.made
                     /\ i = Len(sdk_log[p]) => ~sdk_exists(p)
                     /\ i < Len(sdk_log[p]) => sdk_log[p][i + 1].fetch
               /\ e.kind \in {"index_fail", "bad_index", "no_platform"} => e.requests = 1
               /\ (e.kind = "extract_fail" /\ e.made /\ i < Len(sdk_log[p]))
                  => ~sdk_log[p][i + 1].fetch)
    /\ [][\A p \in Platforms :
            (/\ Len(sdk_log'[p]) = Len(sdk_log[p]) + 1
             /\ sdk_log'[p][Len(sdk_log'[p])].kind \in FailsBeforeExtraction)
                => (sdk_tree' = sdk_tree /\ sdk_ret' \in {"False", "raised"})]_vars

\* A platform's archive was rejected by the check of its entries, and the
\* next resolution of the platform downloaded again and left the directory.
C22_Witness ==
    \E p \in Platforms :
        /\ Len(sdk_log[p]) >= 2
        /\ sdk_log[p][1].kind = "rejected"
        /\ sdk_log[p][2].fetch /\ sdk_log[p][2].made

\* -------------------------------------------------- build, install and run

\* build_action has returned True to main.
BuildActionSucceeded ==
    \/ action_arg = "build" /\ main_pc = "exited" /\ exit_code = "0"
    \/ action_arg = "bir" /\ (main_pc \in {"install", "run"} \/ dev_op # "none")
\* Every step of build_action that this run takes has succeeded.
BuildStepsSucceeded ==
    /\ use_local_sdk \/ sdk_ret = "True"
    /\ pc = "returned" /\ ret = "True"
    /\ opt_skip_build \/ pkg_ret = "True"

\* C23: in the action bir the three steps run in the order build, install,
\* run, each gated on the one before: install_action is called only after
\* build_action returned True, run_action only after install_action
\* returned True, and after a failed step no later step is attempted.
C23_BirGating ==
    /\ [](/\ dev_op # "none" => (action_arg = "bir" /\ BuildStepsSucceeded)
          /\ dev_op \notin {"none", "install", "run"} => FALSE
          /\ (main_pc = "exited" /\ dev_op = "install") => dev_ret = "False"
          /\ (ret = "False" \/ pkg_ret \in {"False", "raised"}
                \/ sdk_ret \in {"False", "raised"} \/ exit_code \in {"1", "raised"})
                => (dev_op = "none" /\ dev_sent = << >>))
    /\ [][/\ (dev_op' = "install" /\ dev_op # "install")
                => (dev_op = "none" /\ main_pc = "install" /\ BuildStepsSucceeded)
          /\ (dev_op' = "run" /\ dev_op # "run")
                => (dev_op = "install" /\ dev_ret = "True" /\ main_pc = "run")]_vars

\* The run request was sent: the third step, after a build and an install
\* that succeeded.
C23_Witness ==
    /\ action_arg = "bir" /\ dev_op = "run" /\ dev_sent # << >>
    /\ dev_sent[1].path = "/app/run"
    /\ ~opt_skip_build /\ pkg_ret = "True"

\* C24: without skip_build, build_action returns True only if package_all
\* found an ELF artifact for every requested platform and wrote the package
\* archive; a build step that reports success and leaves no artifact does
\* not make build_action succeed.
C24_SuccessNeedsPackage ==
    (BuildActionSucceeded /\ ~opt_skip_build)
        => /\ pkg_ret = "True"
           /\ pkg_platforms = main_platforms
           /\ \A i \in 1..Len(main_platforms) : HasAppElf(main_platforms[i])
           /\ pkg_tar # None /\ archives[pkg_tar].exists
           /\ \A i \in 1..Len(main_platforms) :
                 \E e \in archives[pkg_tar].entries :
                     e.kind = "elf" /\ e.platform = main_platforms[i]

\* A build step reported success on exit code 0 and left no artifact;
\* package_all returned False and the action "build" ended with status 1.
C24_Witness ==
    /\ action_arg = "build" /\ ~opt_skip_build
    /\ main_pc = "exited" /\ exit_code = "1"
    /\ pc = "returned" /\ ret = "True"
    /\ \E i \in 1..Len(log) :
          log[i].invoked /\ log[i].ok /\ ~HasAppElf(log[i].platform)
    /\ pkg_ret = "False"

\* C25: install_action sends no request unless an ELF artifact exists for
\* every requested platform: if one is missing, wherever in the list, it
\* returns False with "ELF file not built", before the package path is
\* computed, the archive opened or the device contacted.
C25_NoRequestWithoutElfs ==
    (dev_op = "install" /\ dev_ret # "none")
        => /\ (\E i \in 1..Len(dev_platforms) : ~HasAppElf(dev_platforms[i]))
                => /\ dev_sent = << >>
                   /\ dev_response = NoResponse
                   /\ dev_ret = "False"
                   /\ dev_report = "ELF file not built"
           /\ dev_sent # << >>
                => \A i \in 1..Len(dev_platforms) : HasAppElf(dev_platforms[i])
           /\ dev_report = "Install file error"
                => \A i \in 1..Len(dev_platforms) : HasAppElf(dev_platforms[i])

\* install_action returned False for a list whose first platform has its
\* artifact, and the archive of its package path, and whose second has none.
C25_Witness ==
    /\ dev_op = "install" /\ dev_ret = "False" /\ dev_sent = << >>
    /\ Len(dev_platforms) = 2
    /\ HasAppElf(dev_platforms[1]) /\ ~HasAppElf(dev_platforms[2])
    /\ archives[package_name(dev_platforms)].exists

\* C21: with a bounded pipe between the child and wait_for_process, the
\* child is not blocked forever on a full pipe; a child with a finite output
\* eventually exits and wait_for_process eventually returns.
C21_AsStated == <>(child_exited /\ wait_pc = "returned")

====
